---- MODULE Spec2Model ----
(***************************************************************************)
(* Model of the Mlisp interpreter: the recursive-descent parser            *)
(* (src/src/parse.rs) and the tree-walking evaluator with its stack of     *)
(* scope frames (src/src/eval.rs).                                         *)
(*                                                                         *)
(* eval and parser are recursive Rust functions; they are modelled as      *)
(* RECURSIVE operators that thread the mutable Environment, the lines      *)
(* written to standard output and a history of the evaluator's events      *)
(* (each call of eval, each push/pop of a frame, each insertion into a     *)
(* frame).  A Rust panic (index out of bounds) is the result kind "Panic"; *)
(* exhaustion of the host call stack is the result kind "Overflow".        *)
(***************************************************************************)
EXTENDS Integers, Sequences, FiniteSets, TLC

VARIABLES contexts, out, trace, result, prog, start, phase, tokens, parsed

vars == <<contexts, out, trace, result, prog, start, phase, tokens, parsed>>

(***************************************************************************)
(* Bounds of the model.                                                    *)
(***************************************************************************)
\* deepest nesting of eval / gen_print_output calls the host stack holds
MaxDepth == 7
\* most arguments a generated form supplies after its head
MaxArgs == 3
\* most frames on the environment given to eval
MaxFrames == 2
\* longest token sequence given to parse
MaxTokens == 4

(***************************************************************************)
(* f64.  A value is finite (an exact rational with a sign, so that -0.0    *)
(* exists), infinite or NaN.                                               *)
(***************************************************************************)
RECURSIVE GCD(_, _)
GCD(a, b) == IF b = 0 THEN a ELSE GCD(b, a % b)

NaN == [k |-> "nan", neg |-> FALSE, num |-> 0, den |-> 0]

Inf(neg) == [k |-> "inf", neg |-> neg, num |-> 1, den |-> 0]

Fin(neg, num, den) ==
    IF num = 0 THEN [k |-> "fin", neg |-> neg, num |-> 0, den |-> 1]
    ELSE LET g == GCD(num, den)
         IN  [k |-> "fin", neg |-> neg, num |-> num \div g, den |-> den \div g]

FromInt(n) == IF n < 0 THEN Fin(TRUE, 0 - n, 1) ELSE Fin(FALSE, n, 1)

IsZero(a) == a.k = "fin" /\ a.num = 0

FNeg(a) == IF a.k = "nan" THEN a ELSE [a EXCEPT !.neg = ~@]

\* f64 `+`
FAdd(a, b) ==
    IF a.k = "nan" \/ b.k = "nan" THEN NaN
    ELSE IF a.k = "inf" /\ b.k = "inf" THEN (IF a.neg = b.neg THEN a ELSE NaN)
    ELSE IF a.k = "inf" THEN a
    ELSE IF b.k = "inf" THEN b
    ELSE LET sa == IF a.neg THEN 0 - a.num ELSE a.num
             sb == IF b.neg THEN 0 - b.num ELSE b.num
             n  == sa * b.den + sb * a.den
         IN  IF n = 0
             THEN Fin(IsZero(a) /\ IsZero(b) /\ a.neg /\ b.neg, 0, 1)
             ELSE Fin(n < 0, IF n < 0 THEN 0 - n ELSE n, a.den * b.den)

\* f64 `-`
FSub(a, b) == FAdd(a, FNeg(b))

\* f64 `*`
FMul(a, b) ==
    IF a.k = "nan" \/ b.k = "nan" THEN NaN
    ELSE IF (a.k = "inf" /\ IsZero(b)) \/ (b.k = "inf" /\ IsZero(a)) THEN NaN
    ELSE IF a.k = "inf" \/ b.k = "inf" THEN Inf(a.neg # b.neg)
    ELSE Fin(a.neg # b.neg, a.num * b.num, a.den * b.den)

\* f64 `/`
FDiv(a, b) ==
    IF a.k = "nan" \/ b.k = "nan" THEN NaN
    ELSE IF a.k = "inf" /\ b.k = "inf" THEN NaN
    ELSE IF IsZero(a) /\ IsZero(b) THEN NaN
    ELSE IF IsZero(b) \/ a.k = "inf" THEN Inf(a.neg # b.neg)
    ELSE IF b.k = "inf" THEN Fin(a.neg # b.neg, 0, 1)
    ELSE Fin(a.neg # b.neg, a.num * b.den, a.den * b.num)

\* f64 `==`: NaN equals nothing, -0.0 equals 0.0
FEq(a, b) ==
    IF a.k = "nan" \/ b.k = "nan" THEN FALSE
    ELSE IF IsZero(a) /\ IsZero(b) THEN TRUE
    ELSE a = b

(***************************************************************************)
(* Expr: FNum(f64) | Symbol(String) | List(Vec<Rc<Expr>>).  Every node     *)
(* carries all three payload fields so that any two nodes can be compared. *)
(***************************************************************************)
FNum(f) == [t |-> "FNum", f |-> f, s |-> "", l |-> <<>>]

Symbol(s) == [t |-> "Symbol", f |-> NaN, s |-> s, l |-> <<>>]

List(l) == [t |-> "List", f |-> NaN, s |-> "", l |-> l]

Num(n) == FNum(FromInt(n))

\* derived PartialEq of Expr: deep, order-sensitive, f64 compared by `==`
RECURSIVE ExprEq(_, _)
ExprEq(a, b) ==
    /\ a.t = b.t
    /\ CASE a.t = "FNum"   -> FEq(a.f, b.f)
         [] a.t = "Symbol" -> a.s = b.s
         [] OTHER          -> /\ Len(a.l) = Len(b.l)
                              /\ \A i \in 1..Len(a.l) : ExprEq(a.l[i], b.l[i])

(***************************************************************************)
(* Environment: contexts is the Vec of frames, innermost last.  A frame    *)
(* is a HashMap from name to (parameter names, body).                      *)
(***************************************************************************)
Binding(params, body) == [params |-> params, body |-> body]

EmptyFrame == [k \in {} |-> Binding(<<>>, List(<<>>))]

Insert(frame, name, b) ==
    [k \in DOMAIN frame \cup {name} |-> IF k = name THEN b ELSE frame[k]]

\* Environment::empty
empty == <<>>

\* Environment::default: one seeded frame
DefaultFrame ==
    Insert(Insert(EmptyFrame, "False", Binding(<<>>, List(<<>>))),
           "True", Binding(<<>>, List(<<Num(1)>>)))

default == <<DefaultFrame>>

\* contexts.iter().rev().find(|cntxt| cntxt.contains_key(symbol)): the index
\* of the frame found, scanning from index i down, 0 if none
RECURSIVE rev_find(_, _, _)

\* rev_find without the rev(): the outermost frame that holds the symbol
rev_find_outermost(ctxs, symbol, i) ==
    IF \A j \in 1..i : symbol \notin DOMAIN ctxs[j] THEN 0
    ELSE CHOOSE j \in 1..i :
            symbol \in DOMAIN ctxs[j] /\ \A h \in 1..(j - 1) : symbol \notin DOMAIN ctxs[h]

rev_find(ctxs, symbol, i) ==
    IF i = 0 THEN 0
    ELSE IF symbol \in DOMAIN ctxs[i] THEN i
    ELSE rev_find(ctxs, symbol, i - 1)

\* Option<(Vec<String>, Rc<Expr>)>: <<>> is None, <<b>> is Some(b)
lookup(ctxs, symbol) ==
    LET i == rev_find(ctxs, symbol, Len(ctxs))
    IN  IF i = 0 THEN <<>> ELSE <<ctxs[i][symbol]>>

contains_key(ctxs, symbol) == rev_find(ctxs, symbol, Len(ctxs)) # 0

push_context(ctxs) == Append(ctxs, EmptyFrame)

\* Vec::pop on an empty Vec returns None and changes nothing
pop_context(ctxs) ==
    IF ctxs = <<>> THEN ctxs ELSE SubSeq(ctxs, 1, Len(ctxs) - 1)

num_contexts(ctxs) == Len(ctxs)

\* an error message: the format string, the numbers, the expressions and
\* the inner message formatted into it
Msg(text, nums, exprs, cause) ==
    [msg |-> text, nums |-> nums, exprs |-> exprs, cause |-> cause]

\* add_var inserting into the outermost frame (first_mut for last_mut)
add_var_outermost(ctxs, var, val) ==
    IF ctxs = <<>>
    THEN [ok |-> FALSE, ctxs |-> ctxs, at |-> 0,
          err |-> <<Msg("Environment has no context to add to.", <<>>, <<>>, <<>>)>>]
    ELSE [ok |-> TRUE, at |-> 1,
          ctxs |-> [ctxs EXCEPT ![1] = Insert(@, var, Binding(<<>>, val))],
          err |-> <<>>]

\* Result<(), String> together with the contexts after the call; at is the
\* index of the frame inserted into (0 if none)
add_var(ctxs, var, val) ==
    IF ctxs = <<>>
    THEN [ok |-> FALSE, ctxs |-> ctxs, at |-> 0,
          err |-> <<Msg("Environment has no context to add to.", <<>>, <<>>, <<>>)>>]
    ELSE [ok |-> TRUE, at |-> Len(ctxs),
          ctxs |-> [ctxs EXCEPT ![Len(ctxs)] = Insert(@, var, Binding(<<>>, val))],
          err |-> <<>>]

add_fn(ctxs, name, params, body) ==
    IF ctxs = <<>>
    THEN [ok |-> FALSE, ctxs |-> ctxs, at |-> 0,
          err |-> <<Msg("Environment does not have a context to add to.", <<>>, <<>>, <<>>)>>]
    ELSE [ok |-> TRUE, at |-> Len(ctxs),
          ctxs |-> [ctxs EXCEPT ![Len(ctxs)] = Insert(@, name, Binding(params, body))],
          err |-> <<>>]

(***************************************************************************)
(* The evaluator's mutable surroundings, threaded through every call:      *)
(* env (the Environment), out (the lines printed so far) and trace (the    *)
(* history of events).  An event records what happened, the expression or  *)
(* name it concerns, the contexts right after it and the index of the      *)
(* frame it touched.                                                       *)
(***************************************************************************)
St(env, o, tr) == [env |-> env, out |-> o, trace |-> tr]

Ev(name, e, ctxs, i) == [ev |-> name, e |-> e, ctx |-> ctxs, i |-> i]

Log(st, name, e, i) ==
    [st EXCEPT !.trace = Append(@, Ev(name, e, st.env, i))]

SetEnv(st, ctxs) == [st EXCEPT !.env = ctxs]

\* EvalResult, with the surroundings the call leaves behind
RExpr(v, st) == [kind |-> "Expr", val |-> <<v>>, err |-> <<>>, st |-> st]

RUnit(st) == [kind |-> "Unit", val |-> <<>>, err |-> <<>>, st |-> st]

RErr(e, st) == [kind |-> "Err", val |-> <<>>, err |-> <<e>>, st |-> st]

\* the call does not return: a panic, or the host stack is exhausted
RPanic(st) == [kind |-> "Panic", val |-> <<>>, err |-> <<>>, st |-> st]

ROverflow(st) == [kind |-> "Overflow", val |-> <<>>, err |-> <<>>, st |-> st]

Aborted(r) == r.kind \in {"Panic", "Overflow"}

Returned(r) == r.kind \in {"Expr", "Unit", "Err"}

\* Environment::push_context / pop_context / add_var / add_fn as the
\* evaluator calls them, each leaving its event in the history
PushSt(st) ==
    LET c == push_context(st.env)
    IN  Log(SetEnv(st, c), "push", <<>>, Len(c))

PopSt(st) ==
    LET c == pop_context(st.env)
    IN  Log(SetEnv(st, c), "pop", <<>>, Len(c))

\* the contexts and the history after an add_var / add_fn that returned a
Inserted(st, name, a) ==
    IF a.ok THEN Log(SetEnv(st, a.ctxs), "insert", <<Symbol(name)>>, a.at) ELSE st

(***************************************************************************)
(* The evaluator.  fuel is the number of further nested calls of eval or   *)
(* gen_print_output the host stack can hold.                               *)
(***************************************************************************)
RECURSIVE eval(_, _, _)
RECURSIVE gen_print_output(_, _, _)
RECURSIVE join_print_output(_, _, _)
RECURSIVE collect(_, _, _, _)
RECURSIVE bind_args(_, _, _)

Text(text) == Msg(text, <<>>, <<>>, <<>>)

\* whether the closure mapped over the arguments turns the result r of an
\* argument into Err (or the call never returns), which ends the collect:
\* "num" wants a number, "val" wants a value, "gen" drops Unit and wants a value
Stops(mode, r) ==
    \/ Aborted(r)
    \/ (mode = "num" /\ (r.kind # "Expr" \/ r.val[1].t # "FNum"))
    \/ (mode = "val" /\ r.kind # "Expr")
    \/ (mode = "gen" /\ r.kind = "Err")

\* collect that goes on evaluating the arguments after the first Err
collect_all(vals, st, fuel, mode) ==
    IF vals = <<>> THEN [rs |-> <<>>, st |-> st]
    ELSE LET r == eval(Head(vals), st, fuel)
         IN  IF Aborted(r) THEN [rs |-> <<r>>, st |-> r.st]
             ELSE IF Stops(mode, r)
             THEN [rs |-> <<r>>, st |-> collect(Tail(vals), r.st, fuel, mode).st]
             ELSE LET more == collect(Tail(vals), r.st, fuel, mode)
                  IN  [rs |-> <<r>> \o more.rs, st |-> more.st]

\* vals.iter().map(|e| match eval(e.clone(), env) { .. }).collect::<Result<_, _>>():
\* the arguments are evaluated in order until the first that maps to Err;
\* rs are the results of the arguments evaluated, st what they leave behind
collect(vals, st, fuel, mode) ==
    IF vals = <<>> THEN [rs |-> <<>>, st |-> st]
    ELSE LET r == eval(Head(vals), st, fuel)
         IN  IF Stops(mode, r) THEN [rs |-> <<r>>, st |-> r.st]
             ELSE LET more == collect(Tail(vals), r.st, fuel, mode)
                  IN  [rs |-> <<r>> \o more.rs, st |-> more.st]

Failed(c, mode) == c.rs # <<>> /\ Stops(mode, c.rs[Len(c.rs)])

Values(rs) == [i \in 1..Len(rs) |-> rs[i].val[1]]

\* argum.iter().for_each(|(name, expr)| { let _ = env.add_var(name, expr.clone()); })
bind_args(st, names, values) ==
    IF names = <<>> THEN st
    ELSE bind_args(Inserted(st, Head(names), add_var(st.env, Head(names), Head(values))),
                   Tail(names), Tail(values))

\* eval_symbol with the error of an argument returned before pop_context
eval_symbol_leak(expr, sym, args, st, fuel) ==
    LET found == lookup(st.env, sym)
    IN  IF found = <<>> THEN RExpr(expr, st)
        ELSE
        LET param_names == found[1].params
            expression  == found[1].body
        IN  IF param_names = <<>> THEN eval(expression, st, fuel)
            ELSE IF Len(args) # Len(param_names)
            THEN RErr(Msg("provided {} arguments but expected {}",
                          <<Len(args), Len(param_names)>>, <<>>, <<>>), st)
            ELSE
            LET mapped_args == collect(args, st, fuel, "val")
                last        == mapped_args.rs[Len(mapped_args.rs)]
            IN  IF Failed(mapped_args, "val") /\ Aborted(last) THEN last
                ELSE
                LET pushed == PushSt(mapped_args.st)
                IN  IF Failed(mapped_args, "val")
                    THEN RErr(IF last.kind = "Err" THEN last.err[1]
                              ELSE Text("Cannot pass Unit as an argument to a function."),
                              pushed)
                    ELSE
                    LET r == eval(expression,
                                  bind_args(pushed, param_names, Values(mapped_args.rs)),
                                  fuel)
                    IN  IF Aborted(r) THEN r ELSE [r EXCEPT !.st = PopSt(r.st)]

eval_symbol(expr, sym, args, st, fuel) ==
    LET found == lookup(st.env, sym)
    IN  IF found = <<>> THEN RExpr(expr, st)
        ELSE
        LET param_names == found[1].params
            expression  == found[1].body
        IN  IF param_names = <<>> THEN eval(expression, st, fuel)
            ELSE IF Len(args) # Len(param_names)
            THEN RErr(Msg("provided {} arguments but expected {}",
                          <<Len(args), Len(param_names)>>, <<>>, <<>>), st)
            ELSE
            LET mapped_args == collect(args, st, fuel, "val")
                last        == mapped_args.rs[Len(mapped_args.rs)]
            IN  IF Failed(mapped_args, "val") /\ Aborted(last) THEN last
                ELSE
                LET pushed == PushSt(mapped_args.st)
                IN  IF Failed(mapped_args, "val")
                    THEN RErr(IF last.kind = "Err" THEN last.err[1]
                              ELSE Text("Cannot pass Unit as an argument to a function."),
                              PopSt(pushed))
                    ELSE
                    LET r == eval(expression,
                                  bind_args(pushed, param_names, Values(mapped_args.rs)),
                                  fuel)
                    IN  IF Aborted(r) THEN r ELSE [r EXCEPT !.st = PopSt(r.st)]

\* a rendered string is the sequence of its pieces: texts (as symbols) and numbers
Rendered(pieces) == [ok |-> TRUE, s |-> pieces]

RenderOverflow == [ok |-> FALSE, s |-> <<>>]

\* vals.iter().map(|x| gen_print_output(x, env)).collect(), then join(" ")
join_print_output(vals, env, fuel) ==
    IF vals = <<>> THEN Rendered(<<>>)
    ELSE LET h == gen_print_output(Head(vals), env, fuel)
         IN  IF ~h.ok THEN RenderOverflow
             ELSE LET t == join_print_output(Tail(vals), env, fuel)
                  IN  IF ~t.ok THEN RenderOverflow
                      ELSE IF Tail(vals) = <<>> THEN h
                      ELSE Rendered(h.s \o <<Symbol(" ")>> \o t.s)

gen_print_output(expr, env, fuel) ==
    IF fuel = 0 THEN RenderOverflow
    ELSE CASE expr.t = "Symbol" ->
                LET found == lookup(env, expr.s)
                IN  IF found = <<>> THEN Rendered(<<Symbol(expr.s)>>)
                    ELSE IF Len(found[1].params) = 0
                    THEN gen_print_output(found[1].body, env, fuel - 1)
                    ELSE Rendered(<<Symbol("<func-object: "), Symbol(expr.s), Symbol(">")>>)
           [] expr.t = "FNum" -> Rendered(<<expr>>)
           [] OTHER ->
                LET vals_out == join_print_output(expr.l, env, fuel - 1)
                IN  IF ~vals_out.ok THEN RenderOverflow
                    ELSE Rendered(<<Symbol("(")>> \o vals_out.s \o <<Symbol(")")>>)

\* add_var_to_env without the arm that rejects Unit
add_var_to_env_unit(vals, st, fuel) ==
    IF Len(vals) # 2
    THEN RErr(Text("Invalid variable definition. Should look like (let someVar someExpr)"), st)
    ELSE IF vals[1].t = "Symbol"
    THEN LET r == eval(vals[2], st, fuel)
         IN  IF r.kind = "Expr"
             THEN LET a == add_var(r.st.env, vals[1].s, r.val[1])
                  IN  IF a.ok THEN RUnit(Inserted(r.st, vals[1].s, a))
                      ELSE RErr(a.err[1], r.st)
             ELSE r
    ELSE RErr(Text("Second element of variable def must be a symbol and third must be expression."), st)

add_var_to_env(vals, st, fuel) ==
    IF Len(vals) # 2
    THEN RErr(Text("Invalid variable definition. Should look like (let someVar someExpr)"), st)
    ELSE IF vals[1].t = "Symbol"
    THEN LET r == eval(vals[2], st, fuel)
         IN  IF r.kind = "Expr"
             THEN LET a == add_var(r.st.env, vals[1].s, r.val[1])
                  IN  IF a.ok THEN RUnit(Inserted(r.st, vals[1].s, a))
                      ELSE RErr(a.err[1], r.st)
             ELSE IF r.kind = "Unit"
             THEN RErr(Text("cannot assign Unit to a variable."), r.st)
             ELSE r
    ELSE RErr(Text("Second element of variable def must be a symbol and third must be expression."), st)

FnPattern ==
    Text("Function definitions must follow the pattern (fn fn-name (arg1 arg2 arg3 .. argn) <Expr>)")

\* the Err built when vals.len() != 3 is dropped (no `return`); vals[0],
\* vals[1], vals[2] then index the slice
add_fn_to_env(vals, st) ==
    IF Len(vals) < 3 THEN RPanic(st)
    ELSE IF vals[1].t = "Symbol" /\ vals[2].t = "List"
    THEN LET params == vals[2].l
         IN  IF \A i \in 1..Len(params) : params[i].t = "Symbol"
             THEN LET a == add_fn(st.env, vals[1].s,
                                  [i \in 1..Len(params) |-> params[i].s], vals[3])
                  IN  IF a.ok THEN RUnit(Inserted(st, vals[1].s, a))
                      ELSE RErr(a.err[1], st)
             ELSE RErr(Text("Function parameters must be symbols."), st)
    ELSE RErr(FnPattern, st)

RECURSIVE sum(_)
\* xs.iter().sum(): folds `+` from 0.0
sum(xs) == IF xs = <<>> THEN FromInt(0)
           ELSE FAdd(sum(SubSeq(xs, 1, Len(xs) - 1)), xs[Len(xs)])

RECURSIVE product(_)
\* xs.iter().product(): folds `*` from 1.0
product(xs) == IF xs = <<>> THEN FromInt(1)
               ELSE FMul(product(SubSeq(xs, 1, Len(xs) - 1)), xs[Len(xs)])

RECURSIVE subtract(_)
\* vals[0] minus each later element, in order
subtract(vals) == IF Len(vals) = 1 THEN vals[1]
                  ELSE FSub(subtract(SubSeq(vals, 1, Len(vals) - 1)), vals[Len(vals)])

RECURSIVE divide(_)
\* vals[0] divided by each later element, in order
divide(vals) == IF Len(vals) = 1 THEN vals[1]
                ELSE FDiv(divide(SubSeq(vals, 1, Len(vals) - 1)), vals[Len(vals)])

\* the Result<Vec<f64>, String> the four arithmetic forms collect: xs when
\* every argument evaluated to a number, else r, the result of the form
numbers(vals, st, fuel, typeMsg) ==
    LET c    == collect(vals, st, fuel, "num")
        n    == Len(c.rs)
        last == c.rs[n]
    IN  IF ~Failed(c, "num")
        THEN [ok |-> TRUE, xs |-> [i \in 1..n |-> c.rs[i].val[1].f], st |-> c.st, r |-> RUnit(c.st)]
        ELSE [ok |-> FALSE, xs |-> <<>>, st |-> c.st,
              r |-> IF Aborted(last) THEN last
                    ELSE IF last.kind = "Expr"
                    THEN RErr(Msg(typeMsg, <<>>, <<last.val[1]>>, <<>>), c.st)
                    ELSE RErr(Msg("Failed to eval expr: {:?}", <<>>, <<vals[n]>>, <<>>), c.st)]

add_vals(vals, st, fuel) ==
    IF vals = <<>> THEN RErr(Text("Must perform addition on at least one number"), st)
    ELSE LET total == numbers(vals, st, fuel, "Can only sum numbers, got {:?}")
         IN  IF total.ok THEN RExpr(FNum(sum(total.xs)), total.st) ELSE total.r

sub_vals(vals, st, fuel) ==
    IF vals = <<>> THEN RErr(Text("Must perform subtraction on at least one number"), st)
    ELSE LET total == numbers(vals, st, fuel, "Can only subtract numers, got {:?}")
         IN  IF total.ok THEN RExpr(FNum(subtract(total.xs)), total.st) ELSE total.r

mul_vals(vals, st, fuel) ==
    IF vals = <<>> THEN RErr(Text("Must perform multiplication on at least one number"), st)
    ELSE LET total == numbers(vals, st, fuel, "Can only sum numers, got {:?}")
         IN  IF total.ok THEN RExpr(FNum(product(total.xs)), total.st) ELSE total.r

div_vals(vals, st, fuel) ==
    IF vals = <<>> THEN RErr(Text("Must perform addition on at least one number"), st)
    ELSE LET total == numbers(vals, st, fuel, "Can only sum numers, got {:?}")
         IN  IF total.ok THEN RExpr(FNum(divide(total.xs)), total.st) ELSE total.r

\* a variant answering "True" only when every later value differs from the first
is_equal_symbol_all(vals) ==
    IF vals = <<>> THEN <<>>
    ELSE IF \A i \in 2..Len(vals) : ~ExprEq(vals[1], vals[i]) THEN <<"True">> ELSE <<"False">>

\* <<>> when vals[0] panics on an empty Vec, else <<the String returned>>
is_equal_symbol(vals) ==
    IF vals = <<>> THEN <<>>
    ELSE LET hasFalse == \E i \in 2..Len(vals) : ~ExprEq(vals[1], vals[i])
         IN  IF hasFalse THEN <<"True">> ELSE <<"False">>

is_equal_list(vals) ==
    IF vals = <<>> THEN <<>>
    ELSE LET hasFalse == \E i \in 2..Len(vals) : ~ExprEq(vals[1], vals[i])
         IN  IF hasFalse THEN <<"False">> ELSE <<"True">>

\* `not` matches on the argument as written, after evaluating it
not(vals, st, fuel) ==
    LET r == eval(vals, st, fuel)
    IN  IF Aborted(r) THEN r
        ELSE IF r.kind = "Err"
        THEN RErr(Msg("Failed to eval expr: {:?}", <<>>, <<>>, r.err), r.st)
        ELSE CASE vals.t = "Symbol" ->
                    IF vals.s = "True" THEN RExpr(Symbol("False"), r.st)
                    ELSE IF vals.s = "False" THEN RExpr(Symbol("True"), r.st)
                    ELSE RErr(Text("Invalid input for not operator 1"), r.st)
               [] vals.t = "List" ->
                    LET v == is_equal_list(vals.l)
                    IN  IF v = <<>> THEN RPanic(r.st) ELSE RExpr(Symbol(v[1]), r.st)
               [] OTHER -> RErr(Text("Invalid input for not operator 21"), r.st)

\* the Result<Vec<Rc<Expr>>, String> `=` and `!=` collect
compared(vals, st, fuel) ==
    LET c    == collect(vals, st, fuel, "val")
        last == c.rs[Len(c.rs)]
    IN  IF ~Failed(c, "val")
        THEN [ok |-> TRUE, xs |-> Values(c.rs), st |-> c.st, r |-> RUnit(c.st)]
        ELSE [ok |-> FALSE, xs |-> <<>>, st |-> c.st,
              r |-> IF Aborted(last) THEN last
                    ELSE IF last.kind = "Unit"
                    THEN RErr(Text("Failed to eval, got Unit"), c.st)
                    ELSE RErr(Msg("Failed to eval expr: {:?}", <<>>, <<>>, last.err), c.st)]

equality(vals, st, fuel) ==
    IF vals = <<>> THEN RErr(Text("'=' with no arguments"), st)
    ELSE LET total == compared(vals, st, fuel)
         IN  IF total.ok THEN RExpr(Symbol(is_equal_list(total.xs)[1]), total.st)
             ELSE total.r

inequality(vals, st, fuel) ==
    IF vals = <<>> THEN RErr(Text("'not' with no arguments"), st)
    ELSE LET total == compared(vals, st, fuel)
         IN  IF total.ok THEN RExpr(Symbol(is_equal_symbol(total.xs)[1]), total.st)
             ELSE total.r

\* the arguments are compared as written; none is evaluated
bool_and(vals, st) ==
    IF \A i \in 1..Len(vals) : ExprEq(vals[i], vals[1])
    THEN RExpr(Symbol("True"), st) ELSE RExpr(Symbol("False"), st)

bool_or(vals, st) ==
    IF \E i \in 1..Len(vals) : ExprEq(vals[i], Symbol("True"))
    THEN RExpr(Symbol("True"), st) ELSE RExpr(Symbol("False"), st)

\* if_then_else as a ternary: the result of the selected branch
if_then_else_selected(blocks, st, fuel) ==
    IF Len(blocks) # 3
    THEN RErr(Text("Must have format: if (<argument>) (<then block>) (<else block>)"), st)
    ELSE LET c == eval(blocks[1], st, fuel)
         IN  IF c.kind = "Expr"
             THEN LET expr == c.val[1]
                  IN  IF expr.t = "List" /\ Len(expr.l) = 0
                      THEN eval(blocks[3], c.st, fuel)
                      ELSE eval(blocks[2], c.st, fuel)
             ELSE IF c.kind = "Unit"
             THEN RErr(Text("If expression predicate must return an expression."), c.st)
             ELSE c

if_then_else(blocks, st, fuel) ==
    IF Len(blocks) # 3
    THEN RErr(Text("Must have format: if (<argument>) (<then block>) (<else block>)"), st)
    ELSE LET c == eval(blocks[1], st, fuel)
         IN  IF c.kind = "Expr"
             THEN LET expr == c.val[1]
                      sel  == IF expr.t = "List" /\ Len(expr.l) = 0
                              THEN eval(blocks[3], c.st, fuel)
                              ELSE eval(blocks[2], c.st, fuel)
                  IN  IF Aborted(sel) THEN sel ELSE eval(blocks[2], sel.st, fuel)
             ELSE IF c.kind = "Unit"
             THEN RErr(Text("If expression predicate must return an expression."), c.st)
             ELSE c

\* (print ..): vals[1..] rendered, joined by " ", written as one line
print_vals(vals, st, fuel) ==
    LET output == join_print_output(vals, st.env, fuel)
    IN  IF ~output.ok THEN ROverflow(st)
        ELSE RUnit([st EXCEPT !.out = Append(@, output.s)])

\* the fall-through arm of eval: every element evaluated in order, Unit
\* results filtered out, the first Err returned as it is
eval_list(vals, st, fuel) ==
    LET c    == collect(vals, st, fuel, "gen")
        last == c.rs[Len(c.rs)]
        kept == SelectSeq(c.rs, LAMBDA r : r.kind # "Unit")
    IN  IF Failed(c, "gen") THEN [last EXCEPT !.st = c.st]
        ELSE RExpr(List(Values(kept)), c.st)

IsOp(op, s) == op.t = "Symbol" /\ op.s = s

eval(e, st0, fuel) ==
    IF fuel = 0 THEN ROverflow(st0)
    ELSE
    LET st == Log(st0, "eval", <<e>>, Len(st0.env))
    IN  CASE e.t = "FNum"   -> RExpr(e, st)
          [] e.t = "Symbol" -> eval_symbol(e, e.s, <<>>, st, fuel - 1)
          [] OTHER ->
             LET vals == e.l
             IN  IF vals = <<>> THEN RExpr(List(<<>>), st)
                 ELSE
                 LET op   == vals[1]
                     rest == Tail(vals)
                 IN  IF IsOp(op, "+") THEN add_vals(rest, st, fuel - 1)
                     ELSE IF IsOp(op, "-") THEN sub_vals(rest, st, fuel - 1)
                     ELSE IF IsOp(op, "*") THEN mul_vals(rest, st, fuel - 1)
                     ELSE IF IsOp(op, "/") THEN div_vals(rest, st, fuel - 1)
                     ELSE IF IsOp(op, "=") THEN equality(rest, st, fuel - 1)
                     ELSE IF IsOp(op, "!=") THEN inequality(rest, st, fuel - 1)
                     ELSE IF IsOp(op, "not")
                          THEN (IF Len(vals) < 2 THEN RPanic(st)
                                ELSE not(vals[2], st, fuel - 1))
                     ELSE IF IsOp(op, "and") THEN bool_and(rest, st)
                     ELSE IF IsOp(op, "or") THEN bool_or(rest, st)
                     ELSE IF IsOp(op, "fn") THEN add_fn_to_env(rest, st)
                     ELSE IF IsOp(op, "let") THEN add_var_to_env(rest, st, fuel - 1)
                     ELSE IF IsOp(op, "print") THEN print_vals(rest, st, fuel - 1)
                     ELSE IF IsOp(op, "if") THEN if_then_else(rest, st, fuel - 1)
                     ELSE IF op.t = "Symbol" /\ contains_key(st.env, op.s)
                          THEN eval_symbol(e, op.s, rest, st, fuel - 1)
                     ELSE eval_list(vals, st, fuel - 1)

(***************************************************************************)
(* The expressions and environments eval is run on.                        *)
(***************************************************************************)
Sym(s) == Symbol(s)

Form(head, args) == List(<<Symbol(head)>> \o args)

\* every sequence over S of length 0..n
ArgSeqs(S, n) == UNION {[1..m -> S] : m \in 0..n}

\* a frame of user definitions, as `fn` and `let` leave them
Prelude ==
    [k \in {"id", "setx", "bad", "getx", "callg", "add", "loop", "mk", "outer",
            "k", "me", "x"} |->
       CASE k = "id"    -> Binding(<<"a">>, Sym("a"))
         [] k = "setx"  -> Binding(<<"a">>, Form("let", <<Sym("x"), Sym("a")>>))
         [] k = "bad"   -> Binding(<<"a">>, Form("+", <<>>))
         [] k = "getx"  -> Binding(<<"a">>, Sym("x"))
         [] k = "callg" -> Binding(<<"x">>, Form("getx", <<Num(1)>>))
         [] k = "add"   -> Binding(<<"a", "b">>, Form("+", <<Sym("a"), Sym("b")>>))
         [] k = "loop"  -> Binding(<<"a">>, Form("loop", <<Sym("a")>>))
         [] k = "mk"    -> Binding(<<"a">>, Form("fn", <<Sym("h"), List(<<Sym("b")>>), Sym("a")>>))
         [] k = "outer" -> Binding(<<"a">>, List(<<Form("setx", <<Sym("a")>>), Sym("x")>>))
         [] k = "k"     -> Binding(<<>>, Form("let", <<Sym("y"), Num(2)>>))
         [] k = "me"    -> Binding(<<>>, Sym("me"))
         [] OTHER       -> Binding(<<>>, Num(1))]

\* a frame that shadows some of them
Locals ==
    [k \in {"x", "id", "a"} |->
       CASE k = "x"  -> Binding(<<>>, Num(3))
         [] k = "id" -> Binding(<<"a", "b">>, Sym("b"))
         [] OTHER    -> Binding(<<>>, Num(4))]

Frames == {DefaultFrame, Prelude, Locals}

\* the environments eval is given: every stack of at most MaxFrames frames
InitEnvs == ArgSeqs(Frames, MaxFrames)

\* arguments: a value, an error, a Unit with a binding as its side effect
ArgAtoms == {Num(1), Form("+", <<>>), Form("let", <<Sym("y"), Num(2)>>)}

Reserved == {"+", "-", "*", "/", "=", "!=", "not", "and", "or", "fn", "let", "print", "if"}

\* heads applied to every argument sequence: the reserved forms, functions
\* of one and two parameters, a plain variable, an unbound symbol
Heads == Reserved \cup {"id", "add", "x", "setx", "bad", "q"}

HeadForms == {Form(h, args) : h \in Heads, args \in ArgSeqs(ArgAtoms, MaxArgs)}

\* lists whose head is not a symbol
PlainLists == {List(args) : args \in ArgSeqs(ArgAtoms \cup {Form("print", <<Num(1)>>)}, MaxArgs)}

Atoms == {Num(1), Sym("x"), Sym("y"), Sym("q"), Sym("id"), Sym("add"), Sym("k"),
          Sym("me"), Sym("True"), Sym("False"), List(<<>>)}

FnForms ==
    {Form("fn", <<n, p, b>> \o more) :
        n \in {Sym("h"), Sym("x"), Num(1)},
        p \in {List(<<Sym("a")>>), List(<<Sym("a"), Sym("b")>>), List(<<>>),
               List(<<Num(1)>>), Sym("a")},
        b \in {Sym("a"), Form("+", <<>>)},
        more \in {<<>>, <<Num(1)>>}}
    \cup {Form("fn", <<Sym("h")>>), Form("fn", <<Sym("h"), List(<<Sym("a")>>)>>)}

LetForms ==
    {Form("let", <<n, e>>) :
        n \in {Sym("x"), Sym("y"), Num(1), List(<<Sym("x")>>)},
        e \in {Num(1), Sym("x"), Sym("q"), Form("+", <<>>), Form("print", <<Num(1)>>),
               Form("let", <<Sym("y"), Num(2)>>), Form("let", <<Sym("x"), Num(5)>>),
               Form("id", <<Num(2)>>), Form("setx", <<Num(2)>>), Form("+", <<Num(1), Sym("x")>>),
               List(<<Form("let", <<Sym("x"), Num(5)>>), Form("+", <<>>)>>)}}

IfForms ==
    {Form("if", <<c, t, e>>) :
        c \in {Sym("True"), Sym("False"), List(<<>>), Num(1), Sym("q"),
               Form("print", <<Num(1)>>), Form("+", <<>>), Form("let", <<Sym("y"), Num(2)>>)},
        t \in {Num(1), Form("let", <<Sym("x"), Num(5)>>), Form("print", <<Num(7)>>)},
        e \in {Num(2), Form("let", <<Sym("z"), Num(6)>>), Form("+", <<>>)}}

Calls ==
    {Form("getx", <<Num(1)>>), Form("callg", <<Num(2)>>), Form("loop", <<Num(1)>>),
     Form("mk", <<Num(1)>>), Form("outer", <<Num(2)>>), Form("k", <<>>),
     Form("setx", <<Form("let", <<Sym("x"), Num(5)>>)>>),
     Form("id", <<Form("id", <<Num(2)>>)>>),
     Form("id", <<Sym("x")>>),
     Form("add", <<Sym("x"), Form("id", <<Num(2)>>)>>),
     Form("add", <<Form("print", <<Num(1)>>), Form("let", <<Sym("y"), Num(2)>>)>>),
     Form("not", <<List(<<>>)>>), Form("not", <<Sym("True")>>), Form("not", <<Sym("q")>>),
     Form("not", <<List(<<Num(1), Num(1)>>)>>),
     Form("print", <<Sym("x"), Sym("id"), List(<<Sym("q"), Num(1)>>)>>),
     Form("print", <<Sym("me")>>),
     Form("=", <<Sym("x"), Num(1)>>), Form("/", <<Num(1), Form("-", <<Num(1), Num(1)>>)>>),
     List(<<Form("fn", <<Sym("h"), List(<<Sym("a")>>), Form("let", <<Sym("x"), Sym("a")>>)>>),
            Form("h", <<Num(1)>>), Sym("x")>>)}

\* arguments of = and != that evaluate to numbers, symbols and lists
EqArgs == {Num(1), Sym("x"), List(<<Num(1), Sym("x")>>)}

EqForms ==
    {Form(op, args) : op \in {"=", "!="}, args \in ArgSeqs(EqArgs, MaxArgs)}
    \cup {Form(op, <<List(<<Num(1), Sym("x")>>), b>>) :
            op \in {"=", "!="},
            b \in {List(<<Sym("x"), Num(1)>>), List(<<Num(1), List(<<Sym("x")>>)>>),
                   List(<<Num(1), Sym("x"), Form("print", <<Num(1)>>)>>),
                   Form("print", <<Num(1)>>), Sym("me")}}

\* a let whose expression evaluates to the name itself, or to a list
\* mentioning it, followed by a use of the name
SelfLets ==
    {List(<<Form("let", <<Sym("x"), b>>), use>>) :
        b \in {Sym("x"), List(<<Num(1), Sym("x")>>), Num(1), Sym("q")},
        use \in {Sym("x"), Form("print", <<Sym("x")>>), Form("+", <<Sym("x")>>)}}
    \cup {List(<<Form("let", <<Sym("x"), Sym("y")>>), Form("let", <<Sym("y"), Sym("x")>>), Sym("y")>>)}

Programs == HeadForms \cup PlainLists \cup Atoms \cup FnForms \cup LetForms \cup IfForms \cup Calls \cup EqForms \cup SelfLets

(***************************************************************************)
(* The state machine: an embedding caller holds an Environment and calls   *)
(* eval on one expression; a result that is not Value, Unit or Error ends  *)
(* the process.                                                            *)
(***************************************************************************)
NoResult == [kind |-> "None", val |-> <<>>, err |-> <<>>]

NoParse == [kind |-> "None", index |-> 0, tree |-> <<>>, msg |-> ""]

Init ==
    /\ contexts \in InitEnvs
    /\ start = contexts
    /\ out = <<>>
    /\ trace = <<>>
    /\ result = NoResult
    /\ prog = <<>>
    /\ phase = "ready"
    /\ tokens = <<>>
    /\ parsed = NoParse

Eval(e) ==
    /\ phase = "ready"
    /\ LET r == eval(e, St(contexts, out, <<>>), MaxDepth)
       IN  /\ contexts' = r.st.env
           /\ out' = r.st.out
           /\ trace' = r.st.trace
           /\ result' = [kind |-> r.kind, val |-> r.val, err |-> r.err]
           /\ phase' = IF Aborted(r) THEN "aborted" ELSE "done"
    /\ prog' = <<e>>
    /\ UNCHANGED <<start, tokens, parsed>>

Next == \E e \in Programs : Eval(e)

Spec == Init /\ [][Next]_vars

(***************************************************************************)
(* The parser (src/src/parse.rs).  Indices are 0-based as in the source:   *)
(* tokens.get(index) is tokens[index + 1].                                 *)
(***************************************************************************)
LPar == [t |-> "LPar", s |-> ""]

RPar == [t |-> "RPar", s |-> ""]

Literal(s) == [t |-> "Literal", s |-> s]

\* s.parse::<f64>() on the literals of the model: <<>> is Err, <<f>> is Ok(f)
parse_f64(s) ==
    CASE s = "1"   -> <<FromInt(1)>>
      [] s = "2.5" -> <<Fin(FALSE, 5, 2)>>
      [] OTHER     -> <<>>

Success(index, expr) == [kind |-> "Success", index |-> index, tree |-> <<expr>>, msg |-> ""]

BadParse(msg) == [kind |-> "BadParse", index |-> 0, tree |-> <<>>, msg |-> msg]

EOF == [kind |-> "EOF", index |-> 0, tree |-> <<>>, msg |-> ""]

RECURSIVE parser(_, _)
RECURSIVE parser_list(_, _, _, _)

\* the while loop of the LPar arm: x is the token last looked at, index the
\* position of the next sub-expression, exprs the sub-expressions so far
parser_list(toks, index, exprs, x) ==
    IF x = RPar THEN Success(index + 1, List(exprs))
    ELSE LET r == parser(toks, index)
         IN  IF r.kind # "Success" THEN r
             ELSE IF r.index >= Len(toks) THEN BadParse("Unclosed delimiter")
             ELSE parser_list(toks, r.index, Append(exprs, r.tree[1]), toks[r.index + 1])

parser(toks, index) ==
    IF index < Len(toks)
    THEN LET x == toks[index + 1]
         IN  CASE x.t = "LPar" -> parser_list(toks, index + 1, <<>>, x)
               [] x.t = "RPar" -> BadParse("Unexpected ) encountered.")
               [] x.t = "Literal" ->
                    LET n == parse_f64(x.s)
                    IN  IF n # <<>> THEN Success(index + 1, FNum(n[1]))
                        ELSE Success(index + 1, Symbol(x.s))
               [] OTHER -> BadParse("Unknown token: {:?}")
    ELSE EOF

\* Result<Rc<Expr>, ParseError>: Ok drops the index
parse(toks) ==
    LET r == parser(toks, 0)
    IN  IF r.kind = "Success" THEN [r EXCEPT !.kind = "Ok", !.index = 0] ELSE r

TokenSet == {LPar, RPar, Literal("a"), Literal("1")}

ParseInit ==
    /\ tokens \in ArgSeqs(TokenSet, MaxTokens)
    /\ parsed = NoParse
    /\ phase = "ready"
    /\ contexts = default
    /\ start = default
    /\ out = <<>>
    /\ trace = <<>>
    /\ result = NoResult
    /\ prog = <<>>

Parse ==
    /\ phase = "ready"
    /\ parsed' = parse(tokens)
    /\ phase' = "done"
    /\ UNCHANGED <<contexts, out, trace, result, prog, start, tokens>>

ParseNext == Parse

ParseSpec == ParseInit /\ [][ParseNext]_vars

(***************************************************************************)
(* Properties.                                                             *)
(***************************************************************************)
Ran == phase # "ready"

Events(name) == {i \in 1..Len(trace) : trace[i].ev = name}

\* the frames below the one pushed at event p, at event q
CallerFrames(p, q) == SubSeq(trace[q].ctx, 1, Len(trace[p].ctx) - 1)

\* from event p up to event q the frame pushed at p is still on the stack
Inside(p, q) == \A j \in p..q : Len(trace[j].ctx) >= Len(trace[p].ctx)

\* C1: when eval returns (Value, Unit or Error) the environment has as many
\* frames as when it was called, and every frame pushed for a function
\* application has been popped again, also where an argument failed to
\* evaluate and where the body returned Error.
C1_FramesRestored ==
    phase = "done" =>
        /\ num_contexts(contexts) = num_contexts(start)
        /\ Cardinality(Events("push")) = Cardinality(Events("pop"))
        /\ \A p \in Events("push") :
              \E q \in Events("pop") :
                 /\ q > p
                 /\ Inside(p, q - 1)
                 /\ Len(trace[q].ctx) = Len(trace[p].ctx) - 1

\* an application whose frame was pushed and that returned Error
C1_Witness ==
    /\ phase = "done"
    /\ result.kind = "Err"
    /\ Events("push") # {}
    /\ trace[Len(trace)].ev = "pop"
    /\ num_contexts(contexts) = num_contexts(start)

\* C2: from the push of a callee frame until its pop no frame of the caller
\* changes, every let/fn inserts into the frame that is topmost at that
\* moment, and after the pop the contexts are the caller's again, so no
\* binding made inside the body is visible.
C2_CallerFramesUntouched ==
    Ran =>
        /\ \A i \in Events("insert") : trace[i].i = Len(trace[i].ctx)
        /\ \A p \in Events("push") :
              \A q \in p..Len(trace) :
                 Inside(p, q - 1) =>
                    /\ CallerFrames(p, q) = CallerFrames(p, p)
                    /\ Len(trace[q].ctx) < Len(trace[p].ctx) =>
                          /\ trace[q].ev = "pop"
                          /\ trace[q].ctx = trace[p - 1].ctx

\* a nested call whose body ran a let, after both frames were popped
C2_Witness ==
    /\ phase = "done"
    /\ \E p \in Events("push") : \E p2 \in Events("push") : \E i \in Events("insert") :
          /\ p < p2 /\ p2 < i
          /\ Inside(p, i) /\ Inside(p2, i)
          /\ trace[i - 1].ev = "eval"
    /\ contexts = start

\* the binding of the innermost frame that holds name, <<>> if none does
Innermost(ctxs, name) ==
    LET hit == {i \in 1..Len(ctxs) : name \in DOMAIN ctxs[i]}
    IN  IF hit = {} THEN <<>>
        ELSE <<ctxs[CHOOSE i \in hit : \A j \in hit : j <= i][name]>>

NamesIn(ctxs) == UNION {DOMAIN ctxs[i] : i \in 1..Len(ctxs)} \cup {"q"}

\* the first event after the push at p that is not an insertion
BodyAt(p) == CHOOSE q \in (p + 1)..Len(trace) :
                /\ trace[q].ev # "insert"
                /\ \A j \in (p + 1)..(q - 1) : trace[j].ev = "insert"

\* the pop of the frame pushed at p
PopOf(p) == CHOOSE q \in (p + 1)..Len(trace) :
               Inside(p, q - 1) /\ Len(trace[q].ctx) < Len(trace[p].ctx)

\* C3: lookup returns the binding of the innermost frame holding the name
\* and none if no frame holds it; a function body is evaluated against the
\* live stack at call time, the callee frame (holding just the parameters,
\* bound as values) on top of all the caller's frames, so it sees the
\* caller's variables; a parameter shadows an outer binding of its name
\* until the callee frame is popped.
C3_DynamicInnermostFirst ==
    Ran =>
        /\ \A n \in NamesIn(start) : lookup(start, n) = Innermost(start, n)
        /\ \A i \in 1..Len(trace) : \A n \in NamesIn(trace[i].ctx) :
              /\ lookup(trace[i].ctx, n) = Innermost(trace[i].ctx, n)
              /\ contains_key(trace[i].ctx, n) = (Innermost(trace[i].ctx, n) # <<>>)
        /\ \A p \in Events("push") :
              (p < Len(trace) /\ trace[p + 1].ev = "insert") =>
                 LET q   == BodyAt(p)
                     top == trace[q].ctx[Len(trace[q].ctx)]
                 IN  /\ trace[q].ev = "eval"
                     /\ trace[q].ctx = Append(trace[p - 1].ctx, top)
                     /\ DOMAIN top = {trace[j].e[1].s : j \in (p + 1)..(q - 1)}
                     /\ \A n \in DOMAIN top :
                           /\ top[n].params = <<>>
                           /\ lookup(trace[q].ctx, n) = <<top[n]>>
                           /\ phase = "done" =>
                                 lookup(trace[PopOf(p)].ctx, n) = lookup(trace[p - 1].ctx, n)
                     /\ \A n \in NamesIn(trace[p - 1].ctx) \ DOMAIN top :
                           lookup(trace[q].ctx, n) = lookup(trace[p - 1].ctx, n)
        /\ (phase = "done" /\ prog[1] = Form("callg", <<Num(2)>>)
              /\ \E i \in 1..Len(start) : start[i] = Prelude) =>
              result.val = <<Num(2)>>

\* (callg 2) under frames where x is 3: getx's body sees the x its caller
\* callg bound, and x is 3 again afterwards
C3_Witness ==
    /\ phase = "done"
    /\ prog = <<Form("callg", <<Num(2)>>)>>
    /\ start = <<Prelude, Locals>>
    /\ result.val = <<Num(2)>>
    /\ lookup(contexts, "x") = <<Binding(<<>>, Num(3))>>

HeadBound == /\ prog[1].t = "List"
             /\ prog[1].l # <<>>
             /\ prog[1].l[1].t = "Symbol"
             /\ prog[1].l[1].s \notin Reserved
             /\ lookup(start, prog[1].l[1].s) # <<>>

\* C4: a list whose head is bound with p parameters and that supplies
\* m # p arguments evaluates to Error (naming m and p when p >= 1) with no
\* argument evaluated, no frame pushed and the body not evaluated; so does
\* a function symbol evaluated on its own.
C4_ArityMismatchIsError ==
    /\ (Ran /\ HeadBound) =>
          LET m == Len(prog[1].l) - 1
              p == Len(lookup(start, prog[1].l[1].s)[1].params)
          IN  m # p =>
                 /\ result.kind = "Err"
                 /\ Len(trace) = 1
                 /\ p >= 1 => result.err[1].nums = <<m, p>>
    /\ (Ran /\ prog[1].t = "Symbol" /\ lookup(start, prog[1].s) # <<>>) =>
          LET p == Len(lookup(start, prog[1].s)[1].params)
          IN  p >= 1 =>
                 /\ result.kind = "Err"
                 /\ Len(trace) = 1
                 /\ result.err[1].nums = <<0, p>>

\* C5: unless the host stack is exhausted, eval returns Value, Unit or
\* Error for every expression and environment; it never panics.
C5_EvalReturns ==
    Ran => result.kind \in {"Expr", "Unit", "Err", "Overflow"}

IsFn == prog[1].t = "List" /\ prog[1].l # <<>> /\ IsOp(prog[1].l[1], "fn")

WellFormedFn(args) ==
    /\ Len(args) = 3
    /\ args[1].t = "Symbol"
    /\ args[2].t = "List"
    /\ \A i \in 1..Len(args[2].l) : args[2].l[i].t = "Symbol"

\* C6: a fn form that has not exactly 3 arguments, or whose name is no
\* Symbol, or whose parameters are no List of Symbols, evaluates to Error
\* and leaves every frame as it was; a well-formed one yields Unit and
\* registers (name, params, body) in the innermost frame.
C6_FnTakesExactlyThree ==
    (Ran /\ IsFn) =>
        LET args == Tail(prog[1].l)
        IN  /\ ~WellFormedFn(args) => (result.kind = "Err" /\ contexts = start)
            /\ (WellFormedFn(args) /\ start # <<>>) =>
                  /\ result.kind = "Unit"
                  /\ contexts = [start EXCEPT ![Len(start)] =
                        Insert(@, args[1].s,
                               Binding([i \in 1..Len(args[2].l) |-> args[2].l[i].s], args[3]))]

\* the surroundings in which the handler of the form e starts, eval(e)
\* having been entered under the contexts start
Entered(e) == Log(St(start, <<>>, <<>>), "eval", <<e>>, Len(start))

\* the stack left for the evaluation of a direct sub-expression of the form
SubDepth == MaxDepth - 1

IsLet == prog[1].t = "List" /\ prog[1].l # <<>> /\ IsOp(prog[1].l[1], "let")

\* name is bound in the same frames of a and b, to the same bindings
SameBindings(a, b, name) ==
    /\ Len(a) = Len(b)
    /\ \A i \in 1..Len(a) :
          /\ (name \in DOMAIN a[i]) = (name \in DOMAIN b[i])
          /\ name \in DOMAIN a[i] => a[i][name] = b[i][name]

\* C7 as stated, for an environment with a frame: (let name expr) with 2 arguments and a Symbol name evaluates
\* expr and, on a Value v, inserts name -> ([], v) into the innermost frame
\* only and yields Unit, so that lookup of name returns v with no
\* parameters; if expr yields Unit or Error, or the argument count is not 2,
\* or name is no Symbol, the result is Error and no binding for name is
\* added or changed.
C7_LetBindsValueElseNothing ==
    (Ran /\ IsLet /\ start # <<>>) =>
        LET args == Tail(prog[1].l)
            good == Len(args) = 2 /\ args[1].t = "Symbol"
            r    == eval(args[2], Entered(prog[1]), SubDepth)
        IN  /\ ~good => (result.kind = "Err" /\ contexts = start)
            /\ (good /\ r.kind = "Expr") =>
                  /\ result.kind = "Unit"
                  /\ r.st.env # <<>>
                  /\ contexts = [r.st.env EXCEPT ![Len(r.st.env)] =
                                    Insert(@, args[1].s, Binding(<<>>, r.val[1]))]
                  /\ lookup(contexts, args[1].s) = <<Binding(<<>>, r.val[1])>>
            /\ (good /\ r.kind \in {"Unit", "Err"}) =>
                  /\ result.kind = "Err"
                  /\ SameBindings(contexts, start, args[1].s)

\* C7 amended: with at least one frame a Value v is bound in the innermost
\* frame only and the form yields Unit; with no frame the result is Error.
\* If expr yields Unit or Error the result is Error and the form itself
\* inserts nothing: the environment and the history are as the evaluation
\* of expr left them.  If the argument count is not 2 or name is no Symbol
\* the result is Error, expr is not evaluated and nothing changes.
C7_LetBindsValueElseOnlyExprEffects ==
    (Ran /\ IsLet) =>
        LET args == Tail(prog[1].l)
            good == Len(args) = 2 /\ args[1].t = "Symbol"
            r    == eval(args[2], Entered(prog[1]), SubDepth)
        IN  /\ ~good => (result.kind = "Err" /\ contexts = start /\ Len(trace) = 1)
            /\ (good /\ r.kind = "Expr" /\ r.st.env # <<>>) =>
                  /\ result.kind = "Unit"
                  /\ contexts = [r.st.env EXCEPT ![Len(r.st.env)] =
                                    Insert(@, args[1].s, Binding(<<>>, r.val[1]))]
                  /\ lookup(contexts, args[1].s) = <<Binding(<<>>, r.val[1])>>
                  /\ trace = Append(r.st.trace,
                                    Ev("insert", <<args[1]>>, contexts, Len(contexts)))
            /\ (good /\ r.kind = "Expr" /\ r.st.env = <<>>) =>
                  (result.kind = "Err" /\ contexts = <<>> /\ trace = r.st.trace)
            /\ (good /\ r.kind \in {"Unit", "Err"}) =>
                  /\ result.kind = "Err"
                  /\ contexts = r.st.env
                  /\ trace = r.st.trace
                  /\ out = r.st.out

\* (let x (+ 1 x)) where x was 3: the innermost frame now binds x to 4
C7_Witness ==
    /\ phase = "done"
    /\ prog = <<Form("let", <<Sym("x"), Form("+", <<Num(1), Sym("x")>>)>>)>>
    /\ start = <<Prelude, Locals>>
    /\ result.kind = "Unit"
    /\ lookup(contexts, "x") = <<Binding(<<>>, Num(4))>>
    /\ contexts[1] = Prelude

EvalsOf(tr) == SelectSeq(tr, LAMBDA ev : ev.ev = "eval")

IsPrefix(a, b) == Len(a) <= Len(b) /\ SubSeq(b, 1, Len(a)) = a

\* the results of evaluating items one after the other, each in the
\* surroundings the one before left, up to and including the first that is
\* Error or does not return
RECURSIVE UntilError(_, _, _)
UntilError(items, st, fuel) ==
    IF items = <<>> THEN <<>>
    ELSE LET r == eval(Head(items), st, fuel)
         IN  IF r.kind \in {"Err", "Panic", "Overflow"} THEN <<r>>
             ELSE <<r>> \o UntilError(Tail(items), r.st, fuel)

\* C8: in a generic list, an arithmetic or comparison form and a function
\* application the sub-expressions are evaluated in source order; once one
\* evaluates to Error the form returns Error, no later sub-expression is
\* evaluated and the environment and the output are as that sub-expression
\* left them; a generic list returns exactly that first Error, and without
\* an Error the list of the values in order, the Units dropped.
C8_FailFastInOrder ==
    (Ran /\ prog[1].t = "List" /\ prog[1].l # <<>>) =>
        LET vals    == prog[1].l
            op      == vals[1]
            bound   == op.t = "Symbol" /\ op.s \notin Reserved /\ contains_key(start, op.s)
            generic == ~bound /\ ~(op.t = "Symbol" /\ op.s \in Reserved)
            inScope == \/ generic
                       \/ (bound /\ lookup(start, op.s)[1].params # <<>>)
                       \/ (op.t = "Symbol" /\ op.s \in {"+", "-", "*", "/", "=", "!="})
            items   == IF generic THEN vals ELSE Tail(vals)
            rs      == UntilError(items, Entered(prog[1]), SubDepth)
            n       == Len(rs)
            kept    == SelectSeq(rs, LAMBDA r : r.kind # "Unit")
        IN  (inScope /\ n > 0) =>
               /\ \/ IsPrefix(EvalsOf(trace), EvalsOf(rs[n].st.trace))
                  \/ IsPrefix(EvalsOf(rs[n].st.trace), EvalsOf(trace))
               /\ (rs[n].kind = "Err" /\ IsPrefix(EvalsOf(rs[n].st.trace), EvalsOf(trace))) =>
                     /\ result.kind = "Err"
                     /\ EvalsOf(trace) = EvalsOf(rs[n].st.trace)
                     /\ contexts = rs[n].st.env
                     /\ out = rs[n].st.out
                     /\ generic => result.err = rs[n].err
               /\ (generic /\ rs[n].kind \in {"Expr", "Unit"}) =>
                     /\ result.kind = "Expr"
                     /\ result.val = <<List([i \in 1..Len(kept) |-> kept[i].val[1]])>>
                     /\ contexts = rs[n].st.env
                     /\ out = rs[n].st.out

\* (q (print 1) (+) (let y 2)): the line is printed, the Error of (+) is
\* returned and y is not bound
C8_Witness ==
    /\ phase = "done"
    /\ prog = <<List(<<Form("print", <<Num(1)>>), Form("+", <<>>),
                       Form("let", <<Sym("y"), Num(2)>>)>>)>>
    /\ result.kind = "Err"
    /\ result.err = <<Text("Must perform addition on at least one number")>>
    /\ out = << <<Num(1)>> >>
    /\ contexts = start
    /\ start # <<>>

IsIf == prog[1].t = "List" /\ prog[1].l # <<>> /\ IsOp(prog[1].l[1], "if")

\* C9: (if cond thenExpr elseExpr) with 3 arguments and cond a Value first
\* evaluates the branch cond selects (elseExpr on the empty list, thenExpr
\* otherwise) and discards its result, then evaluates thenExpr, whose result
\* is the result of the form; with cond Unit or Error, or not 3 arguments,
\* the result is Error and neither branch is evaluated.
C9_IfReturnsThenBranch ==
    (Ran /\ IsIf) =>
        LET blocks == Tail(prog[1].l)
            c      == eval(blocks[1], Entered(prog[1]), SubDepth)
            sel    == IF c.val[1] = List(<<>>) THEN blocks[3] ELSE blocks[2]
            first  == eval(sel, c.st, SubDepth)
            second == eval(blocks[2], first.st, SubDepth)
        IN  /\ Len(blocks) # 3 => (result.kind = "Err" /\ Len(trace) = 1 /\ contexts = start)
            /\ (Len(blocks) = 3 /\ c.kind \in {"Unit", "Err"}) =>
                  /\ result.kind = "Err"
                  /\ trace = c.st.trace
                  /\ contexts = c.st.env
                  /\ out = c.st.out
            /\ (Len(blocks) = 3 /\ c.kind = "Expr" /\ Returned(first)) =>
                  /\ result = [kind |-> second.kind, val |-> second.val, err |-> second.err]
                  /\ trace = second.st.trace
                  /\ contexts = second.st.env
                  /\ out = second.st.out

\* (if False 1 (let z 6)): False is the empty list, so the else branch runs
\* and binds z, and the result is still the then branch's 1
C9_Witness ==
    /\ phase = "done"
    /\ prog = <<Form("if", <<Sym("False"), Num(1), Form("let", <<Sym("z"), Num(6)>>)>>)>>
    /\ start = <<DefaultFrame>>
    /\ result = [kind |-> "Expr", val |-> <<Num(1)>>, err |-> <<>>]
    /\ lookup(contexts, "z") = <<Binding(<<>>, Num(6))>>

\* how many `(` are open after the first k tokens
RECURSIVE Depth(_)
Depth(k) ==
    IF k = 0 THEN 0
    ELSE Depth(k - 1) + (IF tokens[k] = LPar THEN 1 ELSE IF tokens[k] = RPar THEN 0 - 1 ELSE 0)

\* parsing starts at a `(` and the tokens run out before its matching `)`
RunsOut == tokens # <<>> /\ tokens[1] = LPar /\ \A k \in 1..Len(tokens) : Depth(k) > 0

\* C10: when parsing starts at a `(` and the tokens run out before the
\* matching `)`, parse fails with BadParse("Unclosed delimiter"); EOF is
\* returned only when there is no token at the start position, and
\* BadParse("Unexpected ) encountered.") only when a `)` stands where an
\* expression is expected.
C10_UnclosedDelimiter ==
    parsed.kind # "None" =>
        /\ RunsOut => parsed = BadParse("Unclosed delimiter")
        /\ parsed.kind = "EOF" => tokens = <<>>
        /\ parsed = BadParse("Unexpected ) encountered.") => tokens[1] = RPar

\* the grammar expr := NUMBER | SYMBOL | '(' expr* ')' read at position i
\* (0-based) of toks: whether an expression stands there, the position after
\* it and its tree; GrammarItems reads expr* up to the closing `)`
RECURSIVE GrammarExpr(_, _)
RECURSIVE GrammarItems(_, _, _)
NoExpr == [ok |-> FALSE, index |-> 0, tree |-> <<>>]

GrammarExpr(toks, i) ==
    IF i >= Len(toks) THEN NoExpr
    ELSE LET x == toks[i + 1]
         IN  CASE x = LPar -> GrammarItems(toks, i + 1, <<>>)
               [] x = RPar -> NoExpr
               [] OTHER ->
                    [ok |-> TRUE, index |-> i + 1,
                     tree |-> IF parse_f64(x.s) # <<>>
                              THEN <<FNum(parse_f64(x.s)[1])>> ELSE <<Symbol(x.s)>>]

GrammarItems(toks, i, acc) ==
    IF i >= Len(toks) THEN NoExpr
    ELSE IF toks[i + 1] = RPar THEN [ok |-> TRUE, index |-> i + 1, tree |-> <<List(acc)>>]
    ELSE LET r == GrammarExpr(toks, i)
         IN  IF r.ok THEN GrammarItems(toks, r.index, Append(acc, r.tree[1])) ELSE NoExpr

\* toks is exactly one complete expression of the grammar
Complete(toks) == GrammarExpr(toks, 0).ok /\ GrammarExpr(toks, 0).index = Len(toks)

\* C11: for every token sequence that is exactly one complete expression of
\* the grammar, empty lists and lists holding empty lists included, the
\* parser started at index 0 returns Success(number of tokens, tree) with the
\* tree of the grammar: same nesting, same order, float literals as numbers
\* and the other literals as symbols.
C11_ParsesCompleteExpression ==
    (parsed.kind # "None" /\ Complete(tokens)) =>
        /\ parser(tokens, 0) = Success(Len(tokens), GrammarExpr(tokens, 0).tree[1])
        /\ parsed.kind = "Ok"
        /\ parsed.tree = GrammarExpr(tokens, 0).tree

\* where the complete expression the tokens start with ends, if there is one
FirstExpr == {k \in 1..Len(tokens) : Complete(SubSeq(tokens, 1, k))}

\* where it ends when tokens follow it
FirstExprFollowed == {k \in FirstExpr : k < Len(tokens)}

\* C12: when the tokens are t1 ++ t2 with t1 one complete expression, parse
\* succeeds with the tree parse(t1) yields and reports nothing about t2,
\* whatever t2 is.
C12_TrailingTokensDiscarded ==
    parsed.kind # "None" =>
        \A k \in FirstExprFollowed :
            /\ parsed.kind = "Ok"
            /\ parsed = parse(SubSeq(tokens, 1, k))
            /\ parsed.tree = GrammarExpr(tokens, 0).tree

\* what the parser does guarantee about trailing tokens: they never change
\* the answer, be it the tree or the failure on an empty list
TrailingTokensIgnored ==
    parsed.kind # "None" =>
        \A k \in FirstExprFollowed : parsed = parse(SubSeq(tokens, 1, k))

IsCompare ==
    prog[1].t = "List" /\ prog[1].l # <<>> /\ (IsOp(prog[1].l[1], "=") \/ IsOp(prog[1].l[1], "!="))

Verdict(b) == IF b THEN Symbol("True") ELSE Symbol("False")

\* C13: when all n >= 1 arguments evaluate to Values, = yields the symbol
\* True if every value is structurally equal to the first and False
\* otherwise, != yields True if at least one differs from the first and
\* False otherwise, so exactly one of the two yields True on the same
\* arguments (with n = 1, = is True and != is False); with no argument, or
\* an argument that evaluates to Unit or Error, both yield Error.
C13_EqualityAgainstFirst ==
    (Ran /\ IsCompare) =>
        LET op     == prog[1].l[1].s
            args   == Tail(prog[1].l)
            rs     == UntilError(args, Entered(prog[1]), SubDepth)
            others == {i \in 1..Len(rs) : rs[i].kind # "Expr"}
            stop   == CHOOSE i \in others : \A j \in others : i <= j
            allEq  == \A i \in 1..Len(rs) : ExprEq(rs[1].val[1], rs[i].val[1])
            twin   == eval(Form(IF op = "=" THEN "!=" ELSE "=", args), St(start, <<>>, <<>>), MaxDepth)
        IN  /\ args = <<>> => result.kind = "Err"
            /\ (others # {} /\ rs[stop].kind \in {"Unit", "Err"}) => result.kind = "Err"
            /\ (args # <<>> /\ others = {}) =>
                  /\ result.kind = "Expr"
                  /\ result.val = <<Verdict(IF op = "=" THEN allEq ELSE ~allEq)>>
                  /\ twin.kind = "Expr"
                  /\ twin.val[1] \in {Symbol("True"), Symbol("False")}
                  /\ twin.val # result.val
                  /\ Len(args) = 1 => result.val = <<Verdict(op = "=")>>

\* (!= 1 1 x) where x is 3: the third value alone differs from the first
C13_Witness ==
    /\ phase = "done"
    /\ prog = <<Form("!=", <<Num(1), Num(1), Sym("x")>>)>>
    /\ lookup(start, "x") = <<Binding(<<>>, Num(3))>>
    /\ result = [kind |-> "Expr", val |-> <<Symbol("True")>>, err |-> <<>>]

\* no fn form anywhere in e
RECURSIVE NoFn(_)
NoFn(e) ==
    e.t = "List" =>
        /\ ~(e.l # <<>> /\ IsOp(e.l[1], "fn"))
        /\ \A i \in 1..Len(e.l) : NoFn(e.l[i])

\* C14: from the default environment the evaluation of a program without a
\* fn form returns: neither eval nor the print renderer recurses without
\* end, whatever the program binds with let and then evaluates or prints.
C14_NoFnTerminates ==
    (Ran /\ start = default /\ NoFn(prog[1])) => result.kind # "Overflow"

====
